---- MODULE Spec2Model ----
(***************************************************************************)
(* A model of PythonSetup/VoteSecure_create_lockscript_cell.py: the        *)
(* deployment pipeline of VoteSecureDeployer (deploy, finalize_deployment, *)
(* wait_for_confirmation, build_deployment_transaction, sign_transaction,  *)
(* save_configuration) and the pure functions it uses.                    *)
(*                                                                         *)
(* Python integers are unbounded; shannon amounts exceed 2^31, so an       *)
(* amount is kept as a record [ckb, sh] with value ckb * 10^8 + sh and     *)
(* 0 <= sh < 10^8 (ckb is negative for a negative amount).  Python strs    *)
(* that the code computes (hex(), bytes.hex()) are sequences of one-       *)
(* character strings; literal strs of the source stay TLA+ strings.        *)
(***************************************************************************)
EXTENDS Integers, Sequences, FiniteSets, TLC

\* ------------------------------------------------------------------ bounds

\* Longest binary payload (bytes) the model reads from disk.
MaxPayloadLen == 1

\* Largest payload size fed to the capacity arithmetic on its own.
MaxSize == 130

\* Most inputs an input selector returns.
MaxInputs == 3

\* Most requests posted through one client on its own.
MaxRequests == 6

\* ------------------------------------------------------- program constants

\* 1 CKB = 100,000,000 shannons.
SHANNONS_PER_CKB == 100000000

\* Minimum cell capacity, in CKB.
MIN_CELL_CKB == 61

\* Safety buffer, in CKB.
BUFFER_CKB == 10

\* input_capacity = required_capacity + 200000000.
STUB_EXTRA_SHANNONS == 200000000

\* fee = 1000.
FEE_SHANNONS == 1000

\* wait_for_confirmation(self, tx_hash, timeout=600).
TIMEOUT_SECONDS == 600

\* time.sleep(5).
POLL_INTERVAL_SECONDS == 5

None == "None"

ZERO_HASH == "0x0000000000000000000000000000000000000000000000000000000000000000"

SECP256K1_BLAKE160_CODE_HASH == "0x9bd7e06f3ecf4be0f2fcd2188b23f1b9fcc88e5d4b65a8637b17723bbda3cce8"

SECP256K1_DEP_GROUP_TX == "0x71a7ba8fc96349fea0ed3a5c47992e3b4084b031a42264a018e0072e8172e46c"

\* "0x" + "00" * 20
ZERO_ARGS_20 == "0x0000000000000000000000000000000000000000"

NETWORK == "testnet"

\* ------------------------------------------------------------ big integers

Sh(c, s) == [ckb |-> c, sh |-> s]

ShNorm(c, s) == Sh(c + (s \div SHANNONS_PER_CKB), s % SHANNONS_PER_CKB)

ShAdd(a, b) == ShNorm(a.ckb + b.ckb, a.sh + b.sh)

ShSub(a, b) == ShNorm(a.ckb - b.ckb, a.sh - b.sh)

ShIsNegative(a) == a.ckb < 0

ShAbs(a) == IF ShIsNegative(a) THEN ShSub(Sh(0, 0), a) ELSE a

\* ------------------------------------------------------------ hex encoding

HexChars == <<"0", "1", "2", "3", "4", "5", "6", "7",
              "8", "9", "a", "b", "c", "d", "e", "f">>

HexDigit(d) == HexChars[d + 1]

HexValue(c) == CHOOSE d \in 0..15 : HexChars[d + 1] = c

\* The digits of a non-negative amount, most significant first, no leading
\* zero ("0" for zero): what Python's hex() prints after "0x".
RECURSIVE HexDigits(_)
HexDigits(a) ==
    LET rem == (a.ckb % 16) * SHANNONS_PER_CKB + a.sh
        q   == Sh(a.ckb \div 16, rem \div 16)
    IN  IF q = Sh(0, 0) THEN <<HexDigit(rem % 16)>>
        ELSE Append(HexDigits(q), HexDigit(rem % 16))

\* Python's hex(n): "0x..." for n >= 0 and "-0x..." for n < 0.
hex(a) ==
    IF ShIsNegative(a) THEN <<"-", "0", "x">> \o HexDigits(ShAbs(a))
    ELSE <<"0", "x">> \o HexDigits(a)

\* Mutant: each byte printed without its leading zero.
RECURSIVE BytesHex_NoPadding(_)
BytesHex_NoPadding(b) ==
    IF Len(b) = 0 THEN <<>>
    ELSE (IF Head(b) < 16 THEN <<HexDigit(Head(b))>>
          ELSE <<HexDigit(Head(b) \div 16), HexDigit(Head(b) % 16)>>)
         \o BytesHex_NoPadding(Tail(b))

\* bytes.hex(): two lower-case digits per byte, high nibble first.
BytesHex(b) ==
    [i \in 1..(2 * Len(b)) |->
        IF i % 2 = 1 THEN HexDigit(b[(i + 1) \div 2] \div 16)
        ELSE HexDigit(b[i \div 2] % 16)]

\* ------------------------------------------------------------------ hashes

\* hashlib.blake2b(digest_size=32, person=b'ckb-default-hash') over data,
\* rendered "0x" + hexdigest: kept symbolic (the digest of distinct inputs
\* is distinct, the digest of equal inputs is equal).
Blake2bCkb(data) ==
    [alg |-> "blake2b-256", person |-> "ckb-default-hash", data |-> data]

calculate_code_hash(binary) == Blake2bCkb(binary)

\* ---------------------------------------------------------------- capacity

\* From p = [q, r] with x = q * d + r, 0 <= r < d, the same for x * f.
ScaleDivMod(p, f, d) ==
    [q |-> p.q * f + ((p.r * f) \div d), r |-> (p.r * f) % d]

\* floor and remainder of n * 2^39 / d, in steps that keep every
\* intermediate value below 2^31 (for d = 5^8 and n < 1500).
ScaledDivMod(n, d) ==
    ScaleDivMod(ScaleDivMod(ScaleDivMod(ScaleDivMod(
        [q |-> n \div d, r |-> n % d], 4096, d), 4096, d), 4096, d), 8, d)

\* 10^8 = 2^8 * 5^8.
FIVE_POW_8 == 390625

\* required_shannons - 71 * 10^8 for a binary of n bytes, following the
\* double-precision evaluation of the source step by step:
\*   binary_size_ckb = n / 1e8
\*   61 + binary_size_ckb      lies in [32, 64):  a multiple of 2^-47
\*   ... + 10                  lies in [64, 128): a multiple of 2^-46
\*   required_ckb * 1e8        lies in [2^32, 2^33): a multiple of 2^-20
\*   int(...)                  truncates.
\* k1 is the first sum's fraction in units of 2^-47 (round to nearest),
\* k2 the second's in units of 2^-46 (round half to even), and twod is
\* 2 * (k2 * 5^8 - n * 2^38): the product is 71e8 + n + twod / 2^19, rounded
\* to a multiple of 2^-20, which is below the integer 71e8 + n exactly when
\* twod < -2^18.
RequiredOffset(n) ==
    LET p    == ScaledDivMod(n, FIVE_POW_8)
        up   == 2 * p.r > FIVE_POW_8
        k1   == p.q + (IF up THEN 1 ELSE 0)
        d1   == IF up THEN FIVE_POW_8 - p.r ELSE 0 - p.r
        e    == IF k1 % 2 = 0 THEN 0
                ELSE IF ((k1 - 1) \div 2) % 2 = 0 THEN 0 - 1 ELSE 1
        twod == d1 + e * FIVE_POW_8
    IN  IF twod < 0 - 262144 THEN n - 1 ELSE n

\* Mutant: the 10 CKB buffer is left out.
RequiredShannons_NoBuffer(n) ==
    ShAdd(Sh(MIN_CELL_CKB, 0), Sh(0, RequiredOffset(n)))

RequiredShannons(n) ==
    ShAdd(Sh(MIN_CELL_CKB + BUFFER_CKB, 0), Sh(0, RequiredOffset(n)))

calculate_required_capacity(binary) == RequiredShannons(Len(binary))

\* ------------------------------------------------------------ transactions

\* The address of one owner.
DeployerAddress == "ckt1-deployer-address"

\* What the "address" entry of the wallet file can hold (self.address): the
\* addresses of two different owners.
WalletAddresses == {DeployerAddress, "ckt1-another-address"}

create_always_success_lock ==
    [code_hash |-> ZERO_HASH, hash_type |-> "data", args |-> <<"0", "x">>]

\* The stub of collect_inputs: one placeholder input, the SECP256K1 lock
\* with zero args, and required_capacity + 2 CKB as the collected total.
collect_inputs(address, required_capacity) ==
    [inputs |-> << [previous_output |-> [tx_hash |-> ZERO_HASH, index |-> "0x0"],
                    since |-> "0x0"] >>,
     input_capacity |-> ShAdd(required_capacity, Sh(0, STUB_EXTRA_SHANNONS)),
     lock_script |-> [code_hash |-> SECP256K1_BLAKE160_CODE_HASH,
                      hash_type |-> "type",
                      args |-> ZERO_ARGS_20]]

\* Mutant: the fee is not taken off the change.
ChangeCapacity_NoFee(input_capacity, required_capacity) ==
    ShSub(input_capacity, required_capacity)

\* fee = 1000; change_capacity = input_capacity - required_capacity - fee
ChangeCapacity(input_capacity, required_capacity) ==
    ShSub(ShSub(input_capacity, required_capacity), Sh(0, FEE_SHANNONS))

\* build_deployment_transaction after its call of collect_inputs: the
\* transaction assembled from the collaborator's result `sel`.  There is no
\* check of the change capacity: a negative one is encoded by hex().
AssembleTransaction(binary, required_capacity, sel) ==
    [version     |-> "0x0",
     cell_deps   |-> << [out_point |-> [tx_hash |-> SECP256K1_DEP_GROUP_TX,
                                        index |-> "0x0"],
                         dep_type |-> "dep_group"] >>,
     header_deps |-> <<>>,
     inputs      |-> sel.inputs,
     outputs     |-> << [capacity |-> hex(required_capacity),
                         lock |-> create_always_success_lock,
                         type |-> None],
                        [capacity |-> hex(ChangeCapacity(sel.input_capacity,
                                                         required_capacity)),
                         lock |-> sel.lock_script,
                         type |-> None] >>,
     outputs_data |-> << <<"0", "x">> \o BytesHex(binary), <<"0", "x">> >>,
     witnesses   |-> <<>>]

build_deployment_transaction(address, binary, required_capacity) ==
    AssembleTransaction(binary, required_capacity,
                        collect_inputs(address, required_capacity))

\* json.dumps(transaction, sort_keys=True) hashed with blake2b.
calculate_transaction_hash(transaction) ==
    Blake2bCkb([json_sorted |-> transaction])

serialize_witness(witness) == witness.lock

\* Mutant: one witness, however many inputs there are.
sign_transaction_OneWitness(transaction, private_key) ==
    LET digest  == calculate_transaction_hash(transaction)
        witness == [lock |-> [der_signature_of |-> digest, key |-> private_key],
                    input_type |-> "", output_type |-> ""]
    IN  [transaction EXCEPT !.witnesses = <<serialize_witness(witness)>>]

\* Mutant: the digest is taken after a placeholder witness was set per input.
sign_transaction_DigestOverPlaceholders(transaction, private_key) ==
    LET digest  == calculate_transaction_hash(
                     [transaction EXCEPT
                        !.witnesses = [i \in 1..Len(transaction.inputs) |-> "0x"]])
        witness == [lock |-> [der_signature_of |-> digest, key |-> private_key],
                    input_type |-> "", output_type |-> ""]
    IN  [transaction EXCEPT
           !.witnesses = [i \in 1..Len(transaction.inputs) |->
                            serialize_witness(witness)]]

\* sign_transaction: the DER signature of the digest (symbolic, "0x" +
\* signature.hex()), one serialized witness per input.
sign_transaction(transaction, private_key) ==
    LET digest  == calculate_transaction_hash(transaction)
        witness == [lock |-> [der_signature_of |-> digest, key |-> private_key],
                    input_type |-> "", output_type |-> ""]
    IN  [transaction EXCEPT
           !.witnesses = [i \in 1..Len(transaction.inputs) |->
                            serialize_witness(witness)]]

\* Mutant: the out_point keeps the placeholder hash.
save_configuration_PlaceholderOutPoint(address, code_hash, tx_hash, binary, required_capacity) ==
    [code_hash |-> code_hash,
     hash_type |-> "data",
     tx_hash |-> tx_hash,
     out_point |-> [tx_hash |-> ZERO_HASH, index |-> "0x0"],
     deployed_by |-> address,
     network |-> NETWORK,
     binary_size_bytes |-> Len(binary),
     capacity_shannons |-> required_capacity]

\* The votesecure_lockscript object save_configuration writes for the
\* deployer whose self.address is `address` (deployed_at, the float
\* capacity_ckb and the endpoint URLs are left out).
save_configuration(address, code_hash, tx_hash, binary, required_capacity) ==
    [code_hash |-> code_hash,
     hash_type |-> "data",
     tx_hash |-> tx_hash,
     out_point |-> [tx_hash |-> tx_hash, index |-> "0x0"],
     deployed_by |-> address,
     network |-> NETWORK,
     binary_size_bytes |-> Len(binary),
     capacity_shannons |-> required_capacity]

\* --------------------------------------------------------- optional values

\* An optional value: <<>> (absent: no file, no value yet) or <<v>>.
Nothing == <<>>

Some(v) == <<v>>

Get(o) == o[1]

\* ------------------------------------------------------------ the wallet key

KEY_HEX_CHARS == 64

KEY_TEXT_CHARS == 66

HexKeyChars ==
    {"0", "1", "2", "3", "4", "5", "6", "7", "8", "9",
     "a", "b", "c", "d", "e", "f", "A", "B", "C", "D", "E", "F"}

\* The characters str.strip() removes (those str.isspace() accepts).  A
\* character without a string escape is written as its code point.
WhiteSpace ==
    {"\t", "\n", "U+000B", "\f", "\r", "U+001C", "U+001D", "U+001E", "U+001F",
     " ", "U+0085", "U+00A0", "U+1680", "U+2000", "U+2001", "U+2002", "U+2003",
     "U+2004", "U+2005", "U+2006", "U+2007", "U+2008", "U+2009", "U+200A",
     "U+2028", "U+2029", "U+202F", "U+205F", "U+3000"}

\* str.strip(): leading and trailing whitespace removed.
strip(s) ==
    LET keep == {i \in 1..Len(s) : s[i] \notin WhiteSpace}
    IN  IF keep = {} THEN <<>>
        ELSE SubSeq(s, CHOOSE i \in keep : \A j \in keep : i <= j,
                       CHOOSE i \in keep : \A j \in keep : j <= i)

\* s.startswith("0x")
startswith_0x(s) == Len(s) >= 2 /\ s[1] = "0" /\ s[2] = "x"

\* str.lower() on one character.
lower(c) ==
    CASE c = "A" -> "a" [] c = "B" -> "b" [] c = "C" -> "c"
      [] c = "D" -> "d" [] c = "E" -> "e" [] c = "F" -> "f"
      [] OTHER -> c

\* Mutant: the length of the hex part is not checked.
normalize_hex_key_NoLengthCheck(text) ==
    LET s        == strip(text)
        hex_part == IF startswith_0x(s) THEN SubSeq(s, 3, Len(s)) ELSE s
    IN  IF \E i \in 1..Len(hex_part) : hex_part[i] \notin HexKeyChars
        THEN Nothing
        ELSE Some(<<"0", "x">> \o [i \in 1..Len(hex_part) |-> lower(hex_part[i])])

\* _normalize_hex_key: Nothing stands for the ValueError, Some(k) for the
\* returned key "0x" + hex_part.lower().
normalize_hex_key(text) ==
    LET s        == strip(text)
        hex_part == IF startswith_0x(s) THEN SubSeq(s, 3, Len(s)) ELSE s
    IN  IF \/ Len(hex_part) # KEY_HEX_CHARS
           \/ \E i \in 1..Len(hex_part) : hex_part[i] \notin HexKeyChars
        THEN Nothing
        ELSE Some(<<"0", "x">> \o [i \in 1..Len(hex_part) |-> lower(hex_part[i])])

\* The text validate_configuration compares the key with.
PlaceholderKey ==
    <<"0", "x", "Y", "O", "U", "R", "_", "P", "R", "I", "V", "A", "T", "E", "_",
      "K", "E", "Y", "_", "H", "E", "R", "E">>

\* n hex characters, the letters in upper or lower case.
KeyBody(n, upper) ==
    [i \in 1..n |-> IF i % 3 = 0 THEN "7"
                    ELSE IF i % 3 = 1 THEN (IF upper THEN "C" ELSE "c")
                    ELSE (IF upper THEN "E" ELSE "e")]

\* What the "rawprivatekey(hex)" entry of the wallet file can hold: well
\* formed keys (bare, prefixed, upper case, surrounded by whitespace) and
\* malformed ones (too short, too long, not hex, "0X" prefix, empty, the
\* placeholder text).
WalletKeys ==
    {KeyBody(KEY_HEX_CHARS, FALSE),
     <<"0", "x">> \o KeyBody(KEY_HEX_CHARS, TRUE),
     <<" ", "0", "x">> \o KeyBody(KEY_HEX_CHARS, FALSE) \o <<"\n">>,
     <<"\f">> \o KeyBody(KEY_HEX_CHARS, FALSE) \o <<"U+00A0", "U+2028">>,
     <<"0", "x">> \o KeyBody(KEY_HEX_CHARS - 1, FALSE) \o <<"U+200B">>,
     KeyBody(KEY_HEX_CHARS - 1, FALSE),
     <<"0", "x">> \o KeyBody(KEY_HEX_CHARS + 1, FALSE),
     <<"0", "X">> \o KeyBody(KEY_HEX_CHARS, FALSE),
     <<"g">> \o KeyBody(KEY_HEX_CHARS - 1, FALSE),
     PlaceholderKey,
     <<>>}

\* What get_NEURON_WALLET_CONFIG returns as "private_key" for the wallet
\* contents it accepts.
NormalizedKeys == {normalize_hex_key(text) : text \in WalletKeys} \ {Nothing}

\* The wallet contents it raises ValueError for.
RejectedKeys == {text \in WalletKeys : normalize_hex_key(text) = Nothing}

\* validate_configuration's checks of self.private_key: not the placeholder
\* text, starts with "0x", 66 characters.
KeyChecksPass(key) ==
    /\ key # PlaceholderKey
    /\ startswith_0x(key)
    /\ Len(key) = KEY_TEXT_CHARS

\* ------------------------------------------------------- the state variables

\* The byte value the modelled binaries are made of (0x0a: its hex form
\* needs the leading zero).
Bytes == {10}

\* The binaries that can be on disk or come out of the compiler: the empty
\* file and a file of MaxPayloadLen bytes, n times the same byte.
Payloads == {[i \in 1..n |-> b] : n \in {0, MaxPayloadLen}, b \in Bytes}

\* The transaction hashes the node hands out or the user passes to --finalize.
TxHashes == {"0x-tx-hash-1", "0x-tx-hash-2"}

\* What CKBRPCClient.call returns for a send_transaction answered without
\* "error": result.get("result"), a hash, or None when the answer has no
\* result.
SendResults == TxHashes \cup {None}

\* sys.argv[0]
SCRIPT == "VoteSecure_create_lockscript_cell.py"

\* The command lines the script is started with: no argument, --finalize
\* alone, --finalize with a hash.
CommandLines ==
    {<<SCRIPT>>, <<SCRIPT, "--finalize">>}
        \cup {<<SCRIPT, "--finalize", h>> : h \in TxHashes}

\* main(): len(sys.argv) > 2 and sys.argv[1] == "--finalize"
IsFinalize(args) == Len(args) > 2 /\ args[2] = "--finalize"

\* What one get_transaction poll can come back with: a tx_status.status, a
\* result without tx_status, or an RPC / connection error.
PollResults == {"committed", "rejected", "pending", "unknown", "no_status", "rpc_error"}

VARIABLES
    pc,                 \* position of the running invocation
    mode,               \* "none", "deploy" or "finalize"
    AUTO_DEPLOY,        \* the module-level configuration flag
    disk_binary,        \* content of LOCKSCRIPT_BINARY_PATH, if the file exists
    dump_file,          \* content of ./deployment_transaction.json
    config_file,        \* content of OUTPUT_CONFIG_PATH
    binary,             \* local: the loaded binary
    code_hash,          \* local
    required_capacity,  \* local
    selection,          \* local: what collect_inputs returned
    transaction,        \* local: the transaction object (signed in place)
    tx_hash,            \* local: hash awaited / recorded
    slept,              \* seconds wait_for_confirmation has spent in time.sleep
    expired,            \* whether the loop condition of the wait, when it was
                        \* evaluated last, found the timeout reached
    poll_status,        \* result of the poll of the current loop iteration
    steps,              \* the pipeline steps this invocation has started
    rpc_calls,          \* the RPC methods this invocation has called
    error,              \* the exception that ended the invocation
    overwrote,          \* whether this invocation replaced an existing record
    private_key,        \* self.private_key of the running invocation's deployer
    address,            \* self.address of the running invocation's deployer
    request_id,         \* self.rpc.request_id
    requests_sent,      \* how many JSON-RPC requests the client has posted
    last_request,       \* id and method of the request posted last
    polls,              \* get_transaction calls of the current wait_for_confirmation
    argv,               \* sys.argv of the running invocation
    node_tx_hash        \* what the node returned for send_transaction in this run

vars == <<pc, mode, AUTO_DEPLOY, disk_binary, dump_file, config_file, binary,
          code_hash, required_capacity, selection, transaction, tx_hash,
          slept, expired, poll_status, steps, rpc_calls, error, overwrote,
          private_key, address, request_id, requests_sent, last_request, polls, argv, node_tx_hash>>

\* The CKBRPCClient object.
client == <<request_id, requests_sent, last_request>>

disk == <<disk_binary, dump_file, config_file>>

Terminal == {"idle", "done", "failed"}

Init ==
    /\ pc = "idle"
    /\ mode = "none"
    /\ AUTO_DEPLOY \in BOOLEAN
    /\ disk_binary \in {Nothing} \cup {Some(b) : b \in Payloads}
    /\ dump_file = Nothing
    /\ config_file = Nothing
    /\ binary = <<>>
    /\ code_hash = Nothing
    /\ required_capacity = Sh(0, 0)
    /\ selection = Nothing
    /\ transaction = Nothing
    /\ tx_hash = None
    /\ slept = 0
    /\ expired = FALSE
    /\ poll_status = "none"
    /\ steps = <<>>
    /\ rpc_calls = {}
    /\ error = "none"
    /\ overwrote = FALSE
    /\ private_key = Nothing
    /\ address = None
    /\ request_id = 0
    /\ requests_sent = 0
    /\ last_request = [id |-> 0, method |-> "none"]
    /\ polls = 0
    /\ argv = <<>>
    /\ node_tx_hash = Nothing

\* CKBRPCClient.call: self.request_id += 1, then the payload with that id
\* is posted.
call(method) ==
    /\ request_id' = request_id + 1
    /\ requests_sent' = requests_sent + 1
    /\ last_request' = [id |-> request_id + 1, method |-> method]

\* CKBRPCClient.get_cells: its own payload with "id": self.request_id is
\* posted to the indexer; request_id is left as it is.
get_cells ==
    /\ request_id' = request_id
    /\ requests_sent' = requests_sent + 1
    /\ last_request' = [id |-> request_id, method |-> "get_cells"]

\* A fresh process: every local starts empty, the client has sent nothing.
FreshData ==
    /\ binary' = <<>>
    /\ code_hash' = Nothing
    /\ required_capacity' = Sh(0, 0)
    /\ selection' = Nothing
    /\ transaction' = Nothing
    /\ slept' = 0
    /\ expired' = FALSE
    /\ poll_status' = "none"
    /\ steps' = <<>>
    /\ rpc_calls' = {}
    /\ overwrote' = FALSE
    /\ request_id' = 0
    /\ requests_sent' = 0
    /\ last_request' = [id |-> 0, method |-> "none"]
    /\ polls' = 0
    /\ node_tx_hash' = Nothing

FreshLocals ==
    /\ FreshData
    /\ error' = "none"

\* Mutant: the handler logs the exception and does not re-raise it.
Raise_Swallowed(kind) ==
    /\ pc' = "done"
    /\ error' = kind

\* An exception leaves the step: deploy's handler prints and re-raises,
\* finalize_deployment has no handler; either way the invocation ends.
Raise(kind) ==
    /\ pc' = "failed"
    /\ error' = kind

\* Module import: get_NEURON_WALLET_CONFIG normalizes the key of the wallet
\* file and takes its address; the file can hold any of WalletKeys and any
\* of WalletAddresses.
LoadWallet ==
    /\ private_key' \in NormalizedKeys
    /\ address' \in WalletAddresses

\* A process whose module import raises ValueError: no deployer is
\* constructed and main() is not reached.
ImportFails ==
    /\ pc \in Terminal
    /\ RejectedKeys # {}
    /\ argv' \in CommandLines
    /\ private_key' = Nothing
    /\ address' = None
    /\ mode' = "none"
    /\ tx_hash' = None
    /\ FreshData
    /\ Raise("KeyFormatError")
    /\ UNCHANGED <<AUTO_DEPLOY, disk>>

\* main(): the else branch, deployer.deploy()
StartDeploy ==
    /\ pc \in Terminal
    /\ LoadWallet
    /\ \E args \in CommandLines :
         /\ ~IsFinalize(args)
         /\ argv' = args
    /\ mode' = "deploy"
    /\ pc' = "validate"
    /\ tx_hash' = None
    /\ FreshLocals
    /\ UNCHANGED <<AUTO_DEPLOY, disk>>

\* main(): tx_hash = sys.argv[2]; deployer.finalize_deployment(tx_hash)
StartFinalize ==
    /\ pc \in Terminal
    /\ LoadWallet
    /\ \E args \in CommandLines :
         /\ IsFinalize(args)
         /\ argv' = args
         /\ tx_hash' = args[3]
    /\ mode' = "finalize"
    /\ pc' = "wait"
    /\ FreshLocals
    /\ UNCHANGED <<AUTO_DEPLOY, disk>>

\* validate_configuration: the key checks pass for a normalized key; the
\* get_tip_header call succeeds or raises.
validate_configuration ==
    /\ pc = "validate"
    /\ steps' = Append(steps, "Validate")
    /\ IF KeyChecksPass(Get(private_key))
       THEN /\ rpc_calls' = rpc_calls \cup {"get_tip_header"}
            /\ call("get_tip_header")
            /\ \/ /\ pc' = "compile"
                  /\ error' = error
               \/ Raise("ConnectivityError")
       ELSE /\ Raise("ConfigError")
            /\ UNCHANGED <<rpc_calls, client>>
    /\ UNCHANGED <<mode, AUTO_DEPLOY, disk, binary, code_hash, required_capacity,
                   selection, transaction, tx_hash, slept, expired, poll_status, overwrote>>
    /\ UNCHANGED <<argv, node_tx_hash, private_key, address, polls>>

\* compile_lockscript: the binary on disk if there is one; otherwise the
\* compiler's output, or an exception (no contract directory, cargo fails,
\* no compiled file).
compile_lockscript ==
    /\ pc = "compile"
    /\ steps' = Append(steps, "ObtainBinary")
    /\ \/ /\ disk_binary # Nothing
          /\ binary' = Get(disk_binary)
          /\ pc' = "code_hash"
          /\ error' = error
       \/ /\ disk_binary = Nothing
          /\ \E b \in Payloads : binary' = b
          /\ pc' = "code_hash"
          /\ error' = error
       \/ /\ disk_binary = Nothing
          /\ binary' = binary
          /\ Raise("CompilationError")
    /\ UNCHANGED <<mode, AUTO_DEPLOY, disk, code_hash, required_capacity, selection,
                   transaction, tx_hash, slept, expired, poll_status, rpc_calls, overwrote>>
    /\ UNCHANGED <<argv, node_tx_hash, private_key, address, client, polls>>

ComputeCodeHash ==
    /\ pc = "code_hash"
    /\ steps' = Append(steps, "ComputeCodeHash")
    /\ code_hash' = Some(calculate_code_hash(binary))
    /\ pc' = "capacity"
    /\ UNCHANGED <<mode, AUTO_DEPLOY, disk, binary, required_capacity, selection,
                   transaction, tx_hash, slept, expired, poll_status, rpc_calls, error,
                   overwrote>>
    /\ UNCHANGED <<argv, node_tx_hash, private_key, address, client, polls>>

\* Mutant: deploy saves the record right after the capacity.
AfterCapacity_SkipsBuild == "save"

\* After the capacity deploy goes on to build, finalize_deployment to save.
AfterCapacity == IF mode = "deploy" THEN "collect" ELSE "save"

ComputeCapacity ==
    /\ pc = "capacity"
    /\ steps' = Append(steps, "ComputeCapacity")
    /\ required_capacity' = calculate_required_capacity(binary)
    /\ pc' = AfterCapacity
    /\ UNCHANGED <<mode, AUTO_DEPLOY, disk, binary, code_hash, selection,
                   transaction, tx_hash, slept, expired, poll_status, rpc_calls, error,
                   overwrote>>
    /\ UNCHANGED <<argv, node_tx_hash, private_key, address, client, polls>>

\* build_deployment_transaction, first statement: collect_inputs.
SelectInputs ==
    /\ pc = "collect"
    /\ steps' = Append(steps, "SelectInputs")
    /\ selection' = Some(collect_inputs(address, required_capacity))
    /\ pc' = "build"
    /\ UNCHANGED <<mode, AUTO_DEPLOY, disk, binary, code_hash, required_capacity,
                   transaction, tx_hash, slept, expired, poll_status, rpc_calls, error,
                   overwrote>>
    /\ UNCHANGED <<argv, node_tx_hash, private_key, address, client, polls>>

\* build_deployment_transaction, the rest: the transaction is assembled.
BuildTx ==
    /\ pc = "build"
    /\ steps' = Append(steps, "BuildTx")
    /\ transaction' = Some(AssembleTransaction(binary, required_capacity, Get(selection)))
    /\ pc' = "dump"
    /\ UNCHANGED <<mode, AUTO_DEPLOY, disk, binary, code_hash, required_capacity,
                   selection, tx_hash, slept, expired, poll_status, rpc_calls, error, overwrote>>
    /\ UNCHANGED <<argv, node_tx_hash, private_key, address, client, polls>>

\* Mutant: the automatic branch is taken whatever the flag says.
AfterDump_AlwaysSign == "sign"

\* deploy: `if AUTO_DEPLOY:` ... `else:`
AfterDump == IF AUTO_DEPLOY THEN "sign" ELSE "manual"

\* Mutant: the dump is not written at this point.
DumpedTransaction_NotWritten(tx) == dump_file

\* deploy: what json.dump(transaction, f) leaves in the dump file.
DumpedTransaction(tx) == Some(tx)

\* deploy: the transaction is written to ./deployment_transaction.json (the
\* file system is assumed writable), then the AUTO_DEPLOY branch is taken.
DumpTransaction ==
    /\ pc = "dump"
    /\ dump_file' = DumpedTransaction(Get(transaction))
    /\ pc' = AfterDump
    /\ UNCHANGED <<mode, AUTO_DEPLOY, disk_binary, config_file, binary, code_hash,
                   required_capacity, selection, transaction, tx_hash, slept, expired,
                   poll_status, steps, rpc_calls, error, overwrote>>
    /\ UNCHANGED <<argv, node_tx_hash, private_key, address, client, polls>>

\* sign_transaction: SigningKey.from_string raises for a scalar outside the
\* curve order; otherwise the witnesses are set on the same object.
Sign ==
    /\ pc = "sign"
    /\ steps' = Append(steps, "Sign")
    /\ \/ /\ transaction' = Some(sign_transaction(Get(transaction), Get(private_key)))
          /\ pc' = "send"
          /\ error' = error
       \/ /\ transaction' = transaction
          /\ Raise("SigningError")
    /\ UNCHANGED <<mode, AUTO_DEPLOY, disk, binary, code_hash, required_capacity,
                   selection, tx_hash, slept, expired, poll_status, rpc_calls, overwrote>>
    /\ UNCHANGED <<argv, node_tx_hash, private_key, address, client, polls>>

\* Mutant: the run goes on with the placeholder hash.
send_transaction_Placeholder(result) == ZERO_HASH

\* send_transaction: the result of self.rpc.send_transaction is returned.
send_transaction(result) == result

\* deploy: tx_hash = self.send_transaction(signed_tx): the node returns the
\* hash, or the call raises.
Submit ==
    /\ pc = "send"
    /\ steps' = Append(steps, "Submit")
    /\ rpc_calls' = rpc_calls \cup {"send_transaction"}
    /\ \/ /\ \E h \in SendResults :
               /\ node_tx_hash' = Some(h)
               /\ tx_hash' = send_transaction(h)
          /\ pc' = "wait"
          /\ error' = error
       \/ /\ tx_hash' = tx_hash
          /\ node_tx_hash' = node_tx_hash
          /\ Raise("SubmissionError")
    /\ UNCHANGED <<mode, AUTO_DEPLOY, disk, binary, code_hash, required_capacity,
                   selection, transaction, slept, expired, poll_status, overwrote>>
    /\ call("send_transaction")
    /\ UNCHANGED <<argv, private_key, address, polls>>

\* wait_for_confirmation: start_time = time.time(), and the loop condition
\* is evaluated for the first time: no time has passed.
WaitStart ==
    /\ pc = "wait"
    /\ steps' = Append(steps, "AwaitConfirmation")
    /\ slept' = 0
    /\ expired' = FALSE
    /\ pc' = "wait_poll"
    /\ UNCHANGED <<mode, AUTO_DEPLOY, disk, binary, code_hash, required_capacity,
                   selection, transaction, tx_hash, poll_status, rpc_calls, error,
                   overwrote>>
    /\ polls' = 0
    /\ UNCHANGED <<argv, node_tx_hash, private_key, address, client>>

\* Where wait_for_confirmation returns to.
AfterConfirmation == IF mode = "deploy" THEN "save" ELSE "get_details"

\* Mutant: an exception of get_transaction leaves the loop.
AfterPoll_ErrorEndsWait(r) ==
    IF r = "committed" THEN AfterConfirmation
    ELSE IF r = "rpc_error" THEN "failed" ELSE "wait_sleep"

\* Mutant: a pending transaction counts as confirmed.
AfterPoll_PendingReturns(r) ==
    IF r \in {"committed", "pending"} THEN AfterConfirmation ELSE "wait_sleep"

\* What one loop iteration does with the poll's result r: "committed"
\* returns True; everything else reaches time.sleep(5).  The exception
\* raised for "rejected" is raised inside the try block and caught by its
\* `except Exception`, like an RPC error.
AfterPoll(r) == IF r = "committed" THEN AfterConfirmation ELSE "wait_sleep"

\* One iteration of the loop, up to the sleep: the loop condition held and
\* get_transaction is called.  The request is answered (a status, or an
\* exception) after any length of time, within the timeout of the wait or
\* beyond it: the clock is not read before the next loop condition.  Or
\* the request is never answered: requests.post has no timeout, and the
\* wait then stays in the call.
Poll ==
    /\ pc = "wait_poll"
    /\ ~expired
    /\ rpc_calls' = rpc_calls \cup {"get_transaction"}
    /\ \/ \E r \in PollResults :
            /\ poll_status' = r
            /\ pc' = AfterPoll(r)
       \/ /\ pc' = "wait_blocked"
          /\ poll_status' = poll_status
    /\ UNCHANGED <<slept, expired>>
    /\ UNCHANGED <<mode, AUTO_DEPLOY, disk, binary, code_hash, required_capacity,
                   selection, transaction, tx_hash, steps, error, overwrote>>
    /\ call("get_transaction")
    /\ polls' = polls + 1
    /\ UNCHANGED <<argv, node_tx_hash, private_key, address>>

\* The time slept after one more time.sleep(5).
AfterSleep(e) == e + POLL_INTERVAL_SECONDS

\* time.sleep(5), then the loop condition time.time() - start_time < timeout
\* is evaluated.  The clock has advanced by the sleeps at least, and by the
\* time the requests took, which can be any: the condition fails for
\* certain once the sleeps alone add up to the timeout, and it may fail
\* before.
Sleep ==
    /\ pc = "wait_sleep"
    /\ slept' = AfterSleep(slept)
    /\ expired' \in (IF expired \/ slept' >= TIMEOUT_SECONDS
                     THEN {TRUE} ELSE BOOLEAN)
    /\ poll_status' = "none"
    /\ pc' = "wait_poll"
    /\ UNCHANGED <<mode, AUTO_DEPLOY, disk, binary, code_hash, required_capacity,
                   selection, transaction, tx_hash, steps, rpc_calls, error, overwrote>>
    /\ UNCHANGED <<argv, node_tx_hash, private_key, address, client, polls>>

\* The loop condition has failed: raise TimeoutError.
WaitTimeout ==
    /\ pc = "wait_poll"
    /\ expired
    /\ Raise("ConfirmationTimeout")
    /\ UNCHANGED <<mode, AUTO_DEPLOY, disk, binary, code_hash, required_capacity,
                   selection, transaction, tx_hash, slept, expired, poll_status, steps,
                   rpc_calls, overwrote>>
    /\ UNCHANGED <<argv, node_tx_hash, private_key, address, client, polls>>

\* finalize_deployment: tx_details = self.rpc.get_transaction(tx_hash)
GetDetails ==
    /\ pc = "get_details"
    /\ steps' = Append(steps, "GetDetails")
    /\ rpc_calls' = rpc_calls \cup {"get_transaction"}
    /\ \/ /\ pc' = "compile"
          /\ error' = error
       \/ Raise("RPCError")
    /\ UNCHANGED <<mode, AUTO_DEPLOY, disk, binary, code_hash, required_capacity,
                   selection, transaction, tx_hash, slept, expired, poll_status, overwrote>>
    /\ call("get_transaction")
    /\ UNCHANGED <<argv, node_tx_hash, private_key, address, polls>>

\* deploy, manual branch: the placeholder tx_hash.
ManualHandOff ==
    /\ pc = "manual"
    /\ tx_hash' = ZERO_HASH
    /\ pc' = "save"
    /\ UNCHANGED <<mode, AUTO_DEPLOY, disk, binary, code_hash, required_capacity,
                   selection, transaction, slept, expired, poll_status, steps, rpc_calls,
                   error, overwrote>>
    /\ UNCHANGED <<argv, node_tx_hash, private_key, address, client, polls>>

\* save_configuration: open(config_path, "w") and json.dump; the summary is
\* printed and the invocation ends.
PersistRecord ==
    /\ pc = "save"
    /\ steps' = Append(steps, "PersistRecord")
    /\ config_file' = Some(save_configuration(address, Get(code_hash), tx_hash, binary,
                                              required_capacity))
    /\ overwrote' = (config_file # Nothing)
    /\ pc' = "done"
    /\ UNCHANGED <<mode, AUTO_DEPLOY, disk_binary, dump_file, binary, code_hash,
                   required_capacity, selection, transaction, tx_hash, slept, expired,
                   poll_status, rpc_calls, error>>
    /\ UNCHANGED <<argv, node_tx_hash, private_key, address, client, polls>>

\* Between invocations the binary file is replaced, created or removed.
ChangeBinary ==
    /\ pc \in Terminal
    /\ disk_binary' \in ({Nothing} \cup {Some(b) : b \in Payloads}) \ {disk_binary}
    /\ UNCHANGED <<pc, mode, AUTO_DEPLOY, dump_file, config_file, binary, code_hash,
                   required_capacity, selection, transaction, tx_hash, slept, expired,
                   poll_status, steps, rpc_calls, error, overwrote>>
    /\ UNCHANGED <<argv, node_tx_hash, private_key, address, client, polls>>

Next ==
    \/ ImportFails
    \/ StartDeploy
    \/ StartFinalize
    \/ validate_configuration
    \/ compile_lockscript
    \/ ComputeCodeHash
    \/ ComputeCapacity
    \/ SelectInputs
    \/ BuildTx
    \/ DumpTransaction
    \/ Sign
    \/ Submit
    \/ WaitStart
    \/ Poll
    \/ Sleep
    \/ WaitTimeout
    \/ GetDetails
    \/ ManualHandOff
    \/ PersistRecord
    \/ ChangeBinary

Spec == Init /\ [][Next]_vars

\* ------------------------------------------------ an arbitrary input selector

\* n zero bytes.
ZeroPayload(n) == [i \in 1..n |-> 0]

\* How far the collected total lies above the required capacity, in
\* shannons: short of the fee, exactly the fee, the stub's 2 CKB.
CollectedExtras == {0 - 1, 0, FEE_SHANNONS - 1, FEE_SHANNONS, FEE_SHANNONS + 1,
                    STUB_EXTRA_SHANNONS}

\* The "index" of the k-th out point a selector returns.
InputIndexes == <<"0x0", "0x1", "0x2", "0x3", "0x4", "0x5", "0x6", "0x7">>

\* k inputs in the shape of the stub's placeholder input.
SelectedInputs(k) ==
    [i \in 1..k |-> [previous_output |-> [tx_hash |-> ZERO_HASH,
                                          index |-> InputIndexes[i]],
                     since |-> "0x0"]]

\* The result of collect_inputs for the required capacity, and what an
\* input selector in its place may return: the stub's lock, any number of
\* inputs up to MaxInputs and another total.  The shipped stub returns one
\* input and required + 2 CKB only; the other results make the build and
\* the signature be checked on more than the program gives them.
SelectorResults(required) ==
    {[collect_inputs(address, required) EXCEPT
        !.inputs = SelectedInputs(k),
        !.input_capacity = ShAdd(required, Sh(0, x))] :
     x \in CollectedExtras, k \in 0..MaxInputs}

\* A deployment at the moment collect_inputs has returned to
\* build_deployment_transaction, for a binary of any size up to MaxSize and
\* any result of the selector.
InitSelector ==
    /\ pc = "build"
    /\ mode = "deploy"
    /\ AUTO_DEPLOY \in BOOLEAN
    /\ \E n \in 0..MaxSize :
         /\ binary = ZeroPayload(n)
         /\ disk_binary = Some(binary)
         /\ code_hash = Some(calculate_code_hash(binary))
         /\ required_capacity = calculate_required_capacity(binary)
         /\ \E sel \in SelectorResults(required_capacity) : selection = Some(sel)
    /\ dump_file = Nothing
    /\ config_file = Nothing
    /\ transaction = Nothing
    /\ tx_hash = None
    /\ slept = 0
    /\ expired = FALSE
    /\ poll_status = "none"
    /\ steps = <<"Validate", "ObtainBinary", "ComputeCodeHash", "ComputeCapacity",
                 "SelectInputs">>
    /\ rpc_calls = {"get_tip_header"}
    /\ error = "none"
    /\ overwrote = FALSE
    /\ private_key \in NormalizedKeys
    /\ address \in WalletAddresses
    /\ argv \in {args \in CommandLines : ~IsFinalize(args)}
    /\ node_tx_hash = Nothing
    /\ request_id = 1
    /\ requests_sent = 1
    /\ last_request = [id |-> 1, method |-> "get_tip_header"]
    /\ polls = 0

NextSelector ==
    \/ BuildTx
    \/ DumpTransaction
    \/ Sign
    \/ ManualHandOff

SpecSelector == InitSelector /\ [][NextSelector]_vars


\* ------------------------------------------------------- the client alone

\* The methods that go through CKBRPCClient.call.
CallMethods == {"get_tip_header", "get_live_cell", "send_transaction",
                "get_transaction"}

\* A caller of the client calls one of the methods built on call().
ClientCall ==
    /\ pc = "idle"
    /\ requests_sent < MaxRequests
    /\ \E method \in CallMethods : call(method)
    /\ UNCHANGED <<pc, mode, AUTO_DEPLOY, disk, binary, code_hash, required_capacity,
                   selection, transaction, tx_hash, slept, expired, poll_status, steps,
                   rpc_calls, error, overwrote, private_key, address, polls, argv, node_tx_hash>>

\* A caller of the client calls get_cells.
ClientGetCells ==
    /\ pc = "idle"
    /\ requests_sent < MaxRequests
    /\ get_cells
    /\ UNCHANGED <<pc, mode, AUTO_DEPLOY, disk, binary, code_hash, required_capacity,
                   selection, transaction, tx_hash, slept, expired, poll_status, steps,
                   rpc_calls, error, overwrote, private_key, address, polls, argv, node_tx_hash>>

NextClient ==
    \/ ClientCall
    \/ ClientGetCells

\* One CKBRPCClient instance, fresh from __init__, under any sequence of
\* calls of its methods.
SpecClient == Init /\ [][NextClient]_vars

\* ------------------------------------------------ the capacity step alone

\* A run at the capacity step, for a binary of any size up to MaxSize: of a
\* deploy, or of a finalize for either hash after a committed first poll.
InitCapacity ==
    /\ pc = "capacity"
    /\ AUTO_DEPLOY \in BOOLEAN
    /\ \E n \in 0..MaxSize :
         /\ binary = ZeroPayload(n)
         /\ disk_binary = Some(binary)
         /\ code_hash = Some(calculate_code_hash(binary))
    /\ \/ /\ mode = "deploy"
          /\ argv \in {args \in CommandLines : ~IsFinalize(args)}
          /\ tx_hash = None
          /\ steps = <<"Validate", "ObtainBinary", "ComputeCodeHash">>
          /\ rpc_calls = {"get_tip_header"}
          /\ poll_status = "none"
          /\ request_id = 1
          /\ last_request = [id |-> 1, method |-> "get_tip_header"]
          /\ polls = 0
       \/ /\ mode = "finalize"
          /\ tx_hash \in TxHashes
          /\ argv = <<SCRIPT, "--finalize", tx_hash>>
          /\ steps = <<"AwaitConfirmation", "GetDetails", "ObtainBinary",
                       "ComputeCodeHash">>
          /\ rpc_calls = {"get_transaction"}
          /\ poll_status = "committed"
          /\ request_id = 2
          /\ last_request = [id |-> 2, method |-> "get_transaction"]
          /\ polls = 1
    /\ requests_sent = request_id
    /\ required_capacity = Sh(0, 0)
    /\ dump_file = Nothing
    /\ config_file = Nothing
    /\ selection = Nothing
    /\ transaction = Nothing
    /\ slept = 0
    /\ expired = FALSE
    /\ error = "none"
    /\ overwrote = FALSE
    /\ private_key \in NormalizedKeys
    /\ address \in WalletAddresses
    /\ node_tx_hash = Nothing

NextCapacity == ComputeCapacity

SpecCapacity == InitCapacity /\ [][NextCapacity]_vars

\* ------------------------------------------------- the confirmation wait alone

\* finalize_deployment at its first statement, the call of
\* wait_for_confirmation: a fresh process, any hash on the command line.
InitWait ==
    /\ pc = "wait"
    /\ mode = "finalize"
    /\ AUTO_DEPLOY \in BOOLEAN
    /\ disk_binary \in {Nothing} \cup {Some(b) : b \in Payloads}
    /\ dump_file = Nothing
    /\ config_file = Nothing
    /\ binary = <<>>
    /\ code_hash = Nothing
    /\ required_capacity = Sh(0, 0)
    /\ selection = Nothing
    /\ transaction = Nothing
    /\ tx_hash \in TxHashes
    /\ slept = 0
    /\ expired = FALSE
    /\ poll_status = "none"
    /\ steps = <<>>
    /\ rpc_calls = {}
    /\ error = "none"
    /\ overwrote = FALSE
    /\ private_key \in NormalizedKeys
    /\ address \in WalletAddresses
    /\ argv = <<SCRIPT, "--finalize", tx_hash>>
    /\ node_tx_hash = Nothing
    /\ request_id = 0
    /\ requests_sent = 0
    /\ last_request = [id |-> 0, method |-> "none"]
    /\ polls = 0

NextWait ==
    \/ WaitStart
    \/ Poll
    \/ Sleep
    \/ WaitTimeout

\* The call runs in one thread: the statement it has reached is executed,
\* sleep returns and every get_transaction request is answered or fails.
SpecWait == InitWait /\ [][NextWait]_vars /\ WF_vars(NextWait)

\* ---------------------------------------------------------------- decoding

\* Python's int(s, 16) on what hex() printed.
RECURSIVE HexNumber(_)
HexNumber(digits) ==
    IF Len(digits) = 0 THEN Sh(0, 0)
    ELSE LET a == HexNumber(SubSeq(digits, 1, Len(digits) - 1))
         IN  ShNorm(a.ckb * 16, a.sh * 16 + HexValue(digits[Len(digits)]))

ParseHex(s) ==
    IF s[1] = "-" THEN ShSub(Sh(0, 0), HexNumber(SubSeq(s, 4, Len(s))))
    ELSE HexNumber(SubSeq(s, 3, Len(s)))

\* bytes.fromhex on the digits after "0x".
DataBytes(d) ==
    [i \in 1..((Len(d) - 2) \div 2) |->
        16 * HexValue(d[2 * i + 1]) + HexValue(d[2 * i + 2])]

\* a <= b for amounts.
ShLeq(a, b) == ~ShIsNegative(ShSub(b, a))

StepsRun == {steps[i] : i \in 1..Len(steps)}

DeploySteps ==
    <<"Validate", "ObtainBinary", "ComputeCodeHash", "ComputeCapacity",
      "SelectInputs", "BuildTx">>
    \o (IF AUTO_DEPLOY THEN <<"Sign", "Submit", "AwaitConfirmation">> ELSE <<>>)
    \o <<"PersistRecord">>

\* ------------------------------------------------------------------ claims

\* C1: as soon as a poll of get_transaction returns status "rejected", the
\* wait ends on that poll with a rejection failure: no sleep, no further
\* poll, never a timeout.  (Stated as the claim has it; the code catches the
\* exception it raises for "rejected" and sleeps.)
C1_RejectedEndsWait ==
    poll_status = "rejected" => (pc = "failed" /\ error = "ConfirmationRejected")

\* C3: the change output's capacity is input_capacity - required_capacity -
\* fee with fee = 1000; when the selector returned required + 2 CKB it is
\* 199999000 whatever the payload size; and the two output capacities plus
\* the fee add up to the input capacity.
C3_ChangeCapacity ==
    transaction # Nothing =>
        LET tx       == Get(transaction)
            total    == Get(selection).input_capacity
            deployed == ParseHex(tx.outputs[1].capacity)
            change   == ParseHex(tx.outputs[2].capacity)
        IN  /\ deployed = required_capacity
            /\ ShAdd(change, ShAdd(required_capacity, Sh(0, 1000))) = total
            /\ ShAdd(ShAdd(deployed, change), Sh(0, 1000)) = total
            /\ total = ShAdd(required_capacity, Sh(2, 0)) => change = Sh(1, 99999000)

\* C3's case: 100 zero bytes, required + 2 CKB collected, change 0xbebbe18.
C3_Witness ==
    /\ transaction # Nothing
    /\ binary = ZeroPayload(100)
    /\ Get(selection).input_capacity = ShAdd(required_capacity, Sh(2, 0))
    /\ Get(transaction).outputs[2].capacity = <<"0", "x", "b", "e", "b", "b", "e", "1", "8">>

\* C4: a built transaction has exactly two outputs and two outputs_data
\* entries, outputs_data[0] is "0x" + the hex of the whole binary and
\* outputs_data[1] is "0x", in the unsigned, the dumped and the signed
\* transaction alike.
C4_TwoOutputs ==
    /\ \A f \in {transaction, dump_file} :
          f # Nothing =>
             /\ Len(Get(f).outputs) = 2
             /\ Len(Get(f).outputs_data) = 2
             /\ SubSeq(Get(f).outputs_data[1], 1, 2) = <<"0", "x">>
             /\ Len(Get(f).outputs_data[1]) % 2 = 0
             /\ Get(f).outputs_data[2] = <<"0", "x">>
    /\ transaction # Nothing => DataBytes(Get(transaction).outputs_data[1]) = binary
    /\ (mode = "deploy" /\ transaction # Nothing /\ pc # "dump") =>
          Get(dump_file).outputs_data = Get(transaction).outputs_data

\* C4's case: a signed and submitted transaction of a non-empty binary.
C4_Witness ==
    /\ pc = "wait_poll"
    /\ mode = "deploy"
    /\ Len(binary) > 0
    /\ Len(Get(transaction).witnesses) = 1

\* C5, as claimed: the record is written once, only after a committed
\* status was observed, and an existing record is never overwritten.
C5_OnceAfterCommit ==
    [][(pc = "save" /\ pc' = "done") =>
          (config_file = Nothing /\ poll_status = "committed")]_vars

\* C5, amended: the record is written only as the last step of a run and
\* replaces whatever record is on disk; with a real hash (auto-submit,
\* finalize) only after a poll returned "committed" for that hash, and in
\* the manual branch with the all-zero placeholder and no confirmation.
C5_RecordWrites ==
    /\ ("PersistRecord" \in StepsRun) = (pc = "done")
    /\ overwrote => pc = "done"
    /\ pc = "done" =>
          /\ config_file # Nothing
          /\ \/ /\ mode = "deploy"
                /\ ~AUTO_DEPLOY
                /\ Get(config_file).tx_hash = ZERO_HASH
                /\ "get_transaction" \notin rpc_calls
             \/ /\ mode = "finalize" \/ AUTO_DEPLOY
                /\ poll_status = "committed"
                /\ "get_transaction" \in rpc_calls
                /\ Get(config_file).tx_hash = tx_hash
                /\ tx_hash \in SendResults

\* C5's case: a finalize run replaced the record an earlier run had left.
C5_Witness ==
    /\ pc = "done"
    /\ mode = "finalize"
    /\ overwrote
    /\ poll_status = "committed"

\* C6: in one deploy run either Sign, Submit and AwaitConfirmation all
\* happen, in that order, before the record is persisted, or none of them
\* does (no witness, no send_transaction, no get_transaction) and the record
\* carries the all-zero hash; AUTO_DEPLOY alone decides which.
C6_ExclusiveBranches ==
    mode = "deploy" =>
        /\ ~AUTO_DEPLOY =>
              /\ StepsRun \cap {"Sign", "Submit", "AwaitConfirmation"} = {}
              /\ rpc_calls \cap {"send_transaction", "get_transaction"} = {}
              /\ transaction # Nothing => Len(Get(transaction).witnesses) = 0
              /\ pc \notin {"sign", "send", "wait", "wait_poll", "wait_sleep"}
              /\ pc = "done" =>
                    /\ Get(config_file).tx_hash = ZERO_HASH
                    /\ Get(config_file).out_point.tx_hash = ZERO_HASH
        /\ AUTO_DEPLOY =>
              /\ pc # "manual"
              /\ pc = "done" =>
                    /\ SubSeq(steps, Len(steps) - 3, Len(steps)) =
                          <<"Sign", "Submit", "AwaitConfirmation", "PersistRecord">>
                    /\ Len(Get(transaction).witnesses) = Len(Get(transaction).inputs)
                    /\ {"send_transaction", "get_transaction"} \subseteq rpc_calls
                    /\ Get(config_file).tx_hash \in SendResults

\* C6's case: a manual run has persisted its placeholder record.
C6_Witness ==
    /\ pc = "done"
    /\ mode = "deploy"
    /\ ~AUTO_DEPLOY
    /\ Get(config_file).tx_hash = ZERO_HASH
    /\ dump_file # Nothing

\* C7: the steps of a deploy run are a prefix of Validate, ObtainBinary,
\* ComputeCodeHash, ComputeCapacity, SelectInputs, BuildTx, (Sign, Submit,
\* AwaitConfirmation,) PersistRecord: in that order, none twice, and a run
\* is done exactly when PersistRecord, the last one, has run.
C7_StepOrder ==
    mode = "deploy" =>
        /\ Len(steps) <= Len(DeploySteps)
        /\ steps = SubSeq(DeploySteps, 1, Len(steps))
        /\ (pc = "done") = (steps = DeploySteps)

\* C7's case: an auto-submit run went through all ten steps.
C7_Witness ==
    /\ pc = "done"
    /\ mode = "deploy"
    /\ AUTO_DEPLOY
    /\ Len(steps) = 10

\* C8: a finalize run for hash H that saw "committed" leaves a record with
\* tx_hash = H, out_point.tx_hash = H, the code hash of the binary loaded in
\* that run and the required capacity of that binary.
C8_FinalizeRecord ==
    (pc = "done" /\ mode = "finalize") =>
        LET r == Get(config_file)
        IN  /\ poll_status = "committed"
            /\ r.tx_hash = tx_hash
            /\ r.out_point = [tx_hash |-> tx_hash, index |-> "0x0"]
            /\ r.code_hash = calculate_code_hash(binary)
            /\ r.capacity_shannons = RequiredShannons(r.binary_size_bytes)
            /\ r.binary_size_bytes = Len(binary)

\* C8's case: finalize of the second hash, with a one-byte binary on disk,
\* has replaced the record an earlier run had left.
C8_Witness ==
    /\ pc = "done"
    /\ mode = "finalize"
    /\ argv = <<SCRIPT, "--finalize", "0x-tx-hash-2">>
    /\ overwrote
    /\ Get(config_file).tx_hash = "0x-tx-hash-2"
    /\ Get(config_file).out_point.tx_hash = "0x-tx-hash-2"
    /\ binary = <<10>>

\* C9: an exception raised by a step ends the run: it reaches the caller
\* (the run is failed exactly when an exception is recorded), no record was
\* or is written in that run, and afterwards nothing of the run moves: the
\* only things that happen are a change of the binary file or a new
\* invocation starting from its first step (or failing at its import).
C9_FailureAborts ==
    [][/\ (error' # "none") = (pc' = "failed")
       /\ pc' = "failed" =>
             /\ "PersistRecord" \notin StepsRun'
             /\ config_file' = config_file
             /\ ~overwrote'
       /\ config_file' # config_file => pc' = "done"
       /\ pc = "failed" =>
             \/ UNCHANGED <<pc, steps, rpc_calls, transaction, tx_hash, dump_file,
                            config_file, error, slept, expired>>
             \/ /\ steps' = <<>>
                /\ rpc_calls' = {}
                /\ \/ error' = "none" /\ pc' \in {"validate", "wait"}
                   \/ error' = "KeyFormatError" /\ pc' = "failed"]_vars

\* C9's case: submission failed in a run started over an existing record.
C9_Witness ==
    /\ pc = "failed"
    /\ error = "SubmissionError"
    /\ steps[Len(steps)] = "Submit"
    /\ config_file # Nothing

\* C10: from the moment the dump step of a deploy run is over, so before
\* Sign starts and whenever Sign, Submit or the wait fail, the dump file
\* holds the transaction of this run as it was built (unsigned).
C10_DumpBeforeSign ==
    (mode = "deploy" /\ (pc \in {"sign", "manual"} \/ "Sign" \in StepsRun)) =>
        /\ dump_file # Nothing
        /\ dump_file = Some([Get(transaction) EXCEPT !.witnesses = <<>>])
        /\ DataBytes(Get(dump_file).outputs_data[1]) = binary

\* C10's case: signing failed and the dump of this run is on disk.
C10_Witness ==
    /\ pc = "failed"
    /\ error = "SigningError"
    /\ mode = "deploy"
    /\ dump_file # Nothing
    /\ DataBytes(Get(dump_file).outputs_data[1]) = binary

\* C11: wait_for_confirmation terminates whatever the node does at each
\* poll: it returns (success) or raises (rejection or timeout failure), and
\* it polls at most timeout / interval times.  (Stated as the claim has it;
\* a request the node never answers blocks the wait for ever.)
C11_WaitTerminates ==
    /\ <>(pc \in {"get_details", "failed"})
    /\ [](polls <= TIMEOUT_SECONDS \div POLL_INTERVAL_SECONDS)
    /\ [](pc = "failed" => error \in {"ConfirmationRejected", "ConfirmationTimeout"})

\* C12: once sign_transaction has returned, the transaction has as many
\* witnesses as inputs, all of them the same value: the DER signature, made
\* with the deployer's key, of the hash of the transaction as it was built
\* (witnesses empty).  Holds for no input, one input and several inputs.
C12_WitnessPerInput ==
    (pc = "send" /\ "Sign" \in StepsRun) =>
        LET tx       == Get(transaction)
            unsigned == Get(dump_file)
            expected == [der_signature_of |-> calculate_transaction_hash(unsigned),
                         key |-> Get(private_key)]
        IN  /\ unsigned.witnesses = <<>>
            /\ Len(tx.witnesses) = Len(tx.inputs)
            /\ \A i \in 1..Len(tx.witnesses) : tx.witnesses[i] = expected
            /\ \A i, j \in 1..Len(tx.witnesses) : tx.witnesses[i] = tx.witnesses[j]

\* C12's case: a transaction with several inputs has been signed.
C12_Witness ==
    /\ pc = "send"
    /\ "Sign" \in StepsRun
    /\ Len(Get(transaction).inputs) = MaxInputs
    /\ Len(Get(transaction).witnesses) = MaxInputs

\* C13: the required capacity of an empty payload is 7100000000 shannons,
\* and the required capacity never decreases when the payload grows: it is
\* at least the required capacity of every smaller payload.
C13_CapacityMonotone ==
    "ComputeCapacity" \in StepsRun =>
        /\ Len(binary) = 0 => required_capacity = Sh(71, 0)
        /\ \A m \in 0..Len(binary) :
              ShLeq(calculate_required_capacity(ZeroPayload(m)), required_capacity)

\* C13's case: the capacity of the largest payload has been computed, and
\* it lies above the one of the empty payload.
C13_Witness ==
    /\ "ComputeCapacity" \in StepsRun
    /\ Len(binary) = MaxSize
    /\ ~ShLeq(required_capacity, Sh(71, 0))

\* C14: the required capacity of an n-byte payload is exactly
\* 6100000000 + n + 1000000000 shannons, never one less.  (Stated as the
\* claim has it; the code computes it in floating point.)
C14_ExactCapacity ==
    "ComputeCapacity" \in StepsRun =>
        required_capacity = ShAdd(Sh(MIN_CELL_CKB + BUFFER_CKB, 0), Sh(0, Len(binary)))

\* C15: every request a CKBRPCClient posts carries an id greater than the
\* id of the request before it, the first one the id 1: no id is used
\* twice and none is 0.  (Stated as the claim has it; get_cells posts
\* self.request_id without incrementing it.)
C15_IdsIncrease ==
    [][requests_sent' > requests_sent =>
          /\ last_request'.id >= 1
          /\ last_request'.id > last_request.id]_vars

\* "0x" followed by 64 hex characters.
WellFormedKey(key) ==
    /\ Len(key) = 66
    /\ key[1] = "0"
    /\ key[2] = "x"
    /\ \A i \in 3..66 : key[i] \in HexKeyChars

\* The wallet contents that, surrounding whitespace aside, are not 64 hex
\* characters with or without "0x" in front.
MalformedKeys ==
    {text \in WalletKeys :
        LET s    == strip(text)
            body == IF startswith_0x(s) THEN SubSeq(s, 3, Len(s)) ELSE s
        IN  Len(body) # 64 \/ \E i \in 1..Len(body) : body[i] \notin HexKeyChars}

\* C16: a wallet key that is not 64 hex characters (with or without "0x")
\* is rejected before anything uses it: a run whose import rejected the key
\* has no deployer key and starts no step, and whenever a step of deploy or
\* finalize_deployment has started or is about to, in particular once Sign
\* has run, the deployer's key is "0x" followed by 64 hex characters.
C16_KeyRejectedBeforeUse ==
    /\ error = "KeyFormatError" =>
          (pc = "failed" /\ private_key = Nothing /\ steps = <<>> /\ rpc_calls = {})
    /\ private_key # Nothing => WellFormedKey(Get(private_key))
    /\ (steps # <<>> \/ pc \notin Terminal) => private_key # Nothing
    /\ MalformedKeys \subseteq RejectedKeys

\* C16's case: the import of a run rejected a malformed key.
C16_Witness ==
    /\ pc = "failed"
    /\ error = "KeyFormatError"
    /\ steps = <<>>
    /\ config_file # Nothing

\* C17: once a deploy run has recorded the code hash of the payload of the
\* transaction it built and dumped, a finalize run does not change it: the
\* code hash it writes is the code hash of outputs_data[0] of that
\* transaction, whatever has happened to the binary file since.  (Stated as
\* the claim has it; finalize_deployment hashes the file it finds.)
C17_RecordedHashIsDeployed ==
    [][(/\ mode = "finalize"
        /\ pc = "save"
        /\ config_file # Nothing
        /\ dump_file # Nothing
        /\ disk_binary # Nothing
        /\ Get(config_file).code_hash
             = calculate_code_hash(DataBytes(Get(dump_file).outputs_data[1])))
       => /\ Get(config_file').code_hash = Get(config_file).code_hash
          /\ Get(config_file').code_hash
               = calculate_code_hash(DataBytes(Get(dump_file').outputs_data[1]))]_vars

\* C19: in a built transaction the first output carries the always-success
\* lock (zero code hash, args "0x") and no type script, the second output
\* no type script and the deployer's own lock, derived from the deployer's
\* address: the deployment of a wallet with another owner's address would
\* not give its change the same lock.  (Stated as the claim has it; the
\* change lock is the lock collect_inputs returns, the same for every
\* address.)
C19_OutputLocks ==
    transaction # Nothing =>
        LET outputs == Get(transaction).outputs
        IN  /\ outputs[1].lock.code_hash = ZERO_HASH
            /\ outputs[1].lock.args = <<"0", "x">>
            /\ outputs[1].type = None
            /\ outputs[2].lock =
                  collect_inputs(address, required_capacity).lock_script
            /\ \A a \in WalletAddresses \ {address} :
                  outputs[2].lock # collect_inputs(a, required_capacity).lock_script
            /\ outputs[2].type = None

\* C20: wait_for_confirmation has returned only if the poll of its last
\* iteration said "committed": it returned on that poll (no sleep after
\* it: a sleep went before every poll but the first); a pending, unknown
\* or status-less answer never goes with a return, and once the loop
\* condition has found the timeout elapsed there is no return without a
\* committed poll: the wait raises.
C20_SuccessOnlyOnCommitted ==
    LET waited   == "AwaitConfirmation" \in StepsRun
        returned == waited /\ pc \notin {"wait_poll", "wait_sleep", "wait_blocked", "failed"}
    IN  /\ returned =>
              /\ poll_status = "committed"
              /\ polls >= 1
              /\ slept = (polls - 1) * POLL_INTERVAL_SECONDS
        /\ (waited /\ poll_status \in {"pending", "unknown", "no_status"}) =>
              pc = "wait_sleep"
        /\ (waited /\ expired /\ poll_status # "committed") =>
              pc \in {"wait_poll", "failed"}
        /\ error = "ConfirmationTimeout" => poll_status # "committed"

\* C20's case: the wait returned on a committed poll that came after
\* polls with other answers.
C20_Witness ==
    /\ pc = AfterConfirmation
    /\ "AwaitConfirmation" \in StepsRun
    /\ poll_status = "committed"
    /\ polls = 3
    /\ slept = 2 * POLL_INTERVAL_SECONDS

\* The first command-line argument is --finalize.
FinalizeFlag == Len(argv) >= 2 /\ argv[2] = "--finalize"

\* C22: an invocation whose first argument is --finalize never runs the
\* deploy path (with or without a hash after it), a run on the finalize
\* path was started with --finalize, and every other invocation that gets
\* past its import runs the deploy path.  (Stated as the claim has it;
\* main() takes the finalize branch only if a second argument is there.)
C22_FinalizeFlagNeverDeploys ==
    /\ FinalizeFlag => mode # "deploy"
    /\ mode = "finalize" => FinalizeFlag
    /\ (argv # <<>> /\ ~FinalizeFlag /\ error # "KeyFormatError") => mode = "deploy"

\* The steps of a finalize run as the claim lists them.
FinalizeStepsClaimed ==
    <<"AwaitConfirmation", "ComputeCodeHash", "ComputeCapacity", "PersistRecord">>

\* C21 as the claim has it: the steps of a finalize run are a prefix of
\* AwaitConfirmation, ComputeCodeHash, ComputeCapacity, PersistRecord and
\* nothing else; no input selection, build, signature or submission; the
\* record is written only after a committed poll, and not in a failed run.
C21_FinalizeOnlyFourSteps ==
    mode = "finalize" =>
        /\ Len(steps) <= Len(FinalizeStepsClaimed)
        /\ steps = SubSeq(FinalizeStepsClaimed, 1, Len(steps))
        /\ StepsRun \cap {"SelectInputs", "BuildTx", "Sign", "Submit"} = {}
        /\ "PersistRecord" \in StepsRun => poll_status = "committed"
        /\ pc = "failed" => "PersistRecord" \notin StepsRun

\* The steps the claim names, among the steps s of a run.
IsClaimedFinalizeStep(s) ==
    s \in {FinalizeStepsClaimed[i] : i \in 1..Len(FinalizeStepsClaimed)}

\* C21, amended: a finalize run goes through AwaitConfirmation for the hash
\* of its command line, ComputeCodeHash, ComputeCapacity and PersistRecord
\* in that order, each at most once and all four when it finishes; it
\* selects no inputs, builds, signs and submits nothing; the record changes
\* only after a committed poll for that hash; a run whose wait ends in
\* rejection or timeout writes no record and leaves the record as it was.
C21_FinalizeRun ==
    [][mode' = "finalize" =>
          LET claimed == SelectSeq(steps', IsClaimedFinalizeStep)
          IN  /\ Len(claimed) <= Len(FinalizeStepsClaimed)
              /\ claimed = SubSeq(FinalizeStepsClaimed, 1, Len(claimed))
              /\ pc' = "done" => claimed = FinalizeStepsClaimed
              /\ StepsRun' \cap {"SelectInputs", "BuildTx", "Sign", "Submit"} = {}
              /\ tx_hash' = argv'[3]
              /\ config_file' # config_file =>
                    /\ "AwaitConfirmation" \in StepsRun
                    /\ poll_status = "committed"
                    /\ "PersistRecord" \in StepsRun'
              /\ (pc' = "failed" /\ error' \in {"ConfirmationRejected",
                                                "ConfirmationTimeout"}) =>
                    /\ config_file' = config_file
                    /\ "PersistRecord" \notin StepsRun']_vars

\* C21's case: a finalize run for the second hash has gone through its
\* steps and replaced the record of an earlier run.
C21_Witness ==
    /\ mode = "finalize"
    /\ pc = "done"
    /\ argv = <<SCRIPT, "--finalize", "0x-tx-hash-2">>
    /\ SelectSeq(steps, IsClaimedFinalizeStep) = FinalizeStepsClaimed
    /\ overwrote
    /\ poll_status = "committed"

\* C23: a poll whose get_transaction raises does not end the wait: no
\* exception leaves the loop, the wait sleeps the fixed interval and comes
\* back to the loop condition; the wait fails only by timeout, once the
\* timeout has elapsed; and a poll that says committed returns success
\* wherever in the wait it comes, after erroring polls included.
C23_PollErrorSwallowed ==
    [][/\ poll_status' = "rpc_error" => (pc' = "wait_sleep" /\ error' = "none")
       /\ (pc = "wait_sleep" /\ poll_status = "rpc_error") =>
             \/ UNCHANGED vars
             \/ /\ pc' = "wait_poll"
                /\ slept' = slept + POLL_INTERVAL_SECONDS
                /\ polls' = polls
                /\ error' = "none"
       /\ (pc \in {"wait_poll", "wait_sleep"} /\ pc' = "failed") =>
             /\ expired
             /\ error' = "ConfirmationTimeout"
       /\ (pc = "wait_poll" /\ poll_status' = "committed") =>
             /\ pc' = (IF mode = "deploy" THEN "save" ELSE "get_details")
             /\ error' = "none"]_vars

\* C23's case: the second poll of a wait raised and the wait goes on.
C23_Witness ==
    /\ pc = "wait_sleep"
    /\ poll_status = "rpc_error"
    /\ polls = 2
    /\ error = "none"

\* The fields of a transaction other than witnesses.
FrameFields == {"version", "cell_deps", "header_deps", "inputs", "outputs",
                "outputs_data"}

\* C24: the transaction build_deployment_transaction returns has no witness
\* and no header dep; sign_transaction signs the hash of that transaction,
\* taken while witnesses is still empty, and changes nothing but witnesses:
\* every other field of the signed transaction equals the unsigned one.
C24_SignChangesOnlyWitnesses ==
    [][/\ (pc = "build" /\ pc' = "dump") =>
             /\ Get(transaction').witnesses = <<>>
             /\ Get(transaction').header_deps = <<>>
       /\ (pc = "sign" /\ pc' = "send") =>
             LET unsigned == Get(transaction)
                 signed   == Get(transaction')
             IN  /\ unsigned.witnesses = <<>>
                 /\ DOMAIN signed = FrameFields \cup {"witnesses"}
                 /\ \A f \in FrameFields : signed[f] = unsigned[f]
                 /\ \A i \in 1..Len(signed.witnesses) :
                       signed.witnesses[i].der_signature_of =
                         calculate_transaction_hash(
                           [signed EXCEPT !.witnesses = <<>>])]_vars

\* C24's case: a transaction with two inputs was signed; but for its two
\* witnesses it is the transaction that was built and dumped.
C24_Witness ==
    /\ pc = "send"
    /\ "Sign" \in StepsRun
    /\ Len(Get(transaction).inputs) = 2
    /\ Len(Get(transaction).witnesses) = 2
    /\ Get(transaction).header_deps = <<>>
    /\ [Get(transaction) EXCEPT !.witnesses = <<>>] = Get(dump_file)

\* C25: in a deploy run the wait is started only after a successful
\* submission, for the hash the node returned to send_transaction; a
\* failed submission starts no wait; and the record written after the wait
\* carries the node's hash as tx_hash and as out_point.tx_hash, with
\* out_point.index 0x0.
C25_AwaitedHashIsNodeHash ==
    mode = "deploy" =>
        /\ (pc \in {"wait", "wait_poll", "wait_sleep"} \/ "AwaitConfirmation" \in StepsRun) =>
              /\ AUTO_DEPLOY
              /\ "Submit" \in StepsRun
              /\ node_tx_hash # Nothing
              /\ tx_hash = Get(node_tx_hash)
              /\ tx_hash \in SendResults
              /\ error # "SubmissionError"
        /\ (node_tx_hash = Nothing \/ error = "SubmissionError") =>
              /\ "AwaitConfirmation" \notin StepsRun
              /\ pc \notin {"wait", "wait_poll", "wait_sleep"}
        /\ (pc = "done" /\ AUTO_DEPLOY) =>
              /\ node_tx_hash # Nothing
              /\ Get(config_file).tx_hash = Get(node_tx_hash)
              /\ Get(config_file).out_point =
                    [tx_hash |-> Get(node_tx_hash), index |-> "0x0"]

\* C25's case: an automatic deployment is finished and its record carries
\* the hash the node returned.
C25_Witness ==
    /\ mode = "deploy"
    /\ AUTO_DEPLOY
    /\ pc = "done"
    /\ "AwaitConfirmation" \in StepsRun
    /\ node_tx_hash = Some("0x-tx-hash-2")
    /\ Get(config_file).tx_hash = "0x-tx-hash-2"
    /\ Get(config_file).out_point.index = "0x0"

====
